---- MODULE Spec2Model ----
(***************************************************************************)
(* Session lifecycle and per-user client cache of the shop front end:      *)
(* the Redux slices auth / cart / orders with their localStorage           *)
(* persistence, the thunks loginUser / initializeApp / logoutUser, and the *)
(* useAutoLogout hook as wired by AutoLogoutProvider.                      *)
(*                                                                         *)
(* One JavaScript task (an event handler, a timer callback, a thunk) is    *)
(* one action.  React commits the re-render a task caused, and runs the    *)
(* effects of that render, before the next task: Flush at the end of every *)
(* action is that commit.                                                  *)
(***************************************************************************)
EXTENDS Integers, Sequences, FiniteSets, TLC

VARIABLES
  auth,            \* state.auth   : user, isAuthenticated, isLoading, error, users
  cart,            \* state.cart   : cartItems, currentUserId
  orders,          \* state.orders : orders, currentUserId
  localStorage,    \* the durable key/value store
  pendingAuth,     \* deferred loginUser callbacks, in scheduling order
  mounted,         \* App and AutoLogoutProvider have rendered once
  config,          \* props of AutoLogoutProvider
  hook,            \* useAutoLogout: refs, registered listeners, closure value
  timers,          \* pending setTimeout callbacks of hook and provider
  isWarningShown,  \* AutoLogoutProvider state
  now,             \* Date.now()
  hidden,          \* document.hidden
  notes,           \* what the last task did (history)
  switch,          \* the user switch the last task made (history)
  atLogout,        \* per user: the views at that user's last logout (history)
  sess             \* the running session (history)

vars == <<auth, cart, orders, localStorage, pendingAuth, mounted, config, hook,
          timers, isWarningShown, now, hidden, notes, switch, atLogout, sess>>

-----------------------------------------------------------------------------
(* Bounds of the model *)

MaxQty == 2
MaxOrders == 1
MaxPending == 1
MaxTime == 5
MaxTimeout == 3
MaxOverlap == 2
MaxUsers == 3
MaxDepth == 3

-----------------------------------------------------------------------------
(* Values *)

NULL == "null"
NoUser == [null |-> TRUE]

Items == {"p1"}
Sizes == {"M", "L"}
SizeInputs == Sizes \cup {""}
QtyInputs == (-1)..MaxQty
OrderIds == {"o1", "o2"}
StatusInputs == {"shipped"}
PaymentInputs == {"undefined", "card"}

\* The user directory persisted under `users` by earlier runs of the application.
Directory ==
  << [id |-> "u1", email |-> "a@x", password |-> "pw1", name |-> "A"],
     [id |-> "u2", email |-> "b@x", password |-> "pw2", name |-> "B"] >>

UserIds == {Directory[i].id : i \in DOMAIN Directory}
Credentials ==
  {[email |-> "a@x", password |-> "pw1"], [email |-> "b@x", password |-> "pw2"],
   [email |-> "a@x", password |-> "pw2"]}
ValidCredentials ==
  {[email |-> "a@x", password |-> "pw1"], [email |-> "b@x", password |-> "pw2"]}
SessionCredentials == {[email |-> "a@x", password |-> "pw1"]}
\* The sign-up form: a new e-mail address, and one of the directory.
RegisterInputs ==
  {[name |-> "C", email |-> "c@x", password |-> "pw3"],
   [name |-> "D", email |-> "a@x", password |-> "pw4"]}

\* Payloads of updateProfile (Partial<User>): a new name, the e-mail of
\* another user of the directory.
ProfileInputs == {[name |-> "Z"], [email |-> "b@x"]}

EmptyCart == << >>

Put(f, k, v) == [x \in DOMAIN f \cup {k} |-> IF x = k THEN v ELSE f[x]]
Del(f, k) == [x \in DOMAIN f \ {k} |-> f[x]]
Has(f, k) == k \in DOMAIN f

\* JavaScript truthiness of a number / of obj[key] that may be undefined.
Truthy(n) == n # 0
TruthyAt(f, k) == Has(f, k) /\ Truthy(f[k])

-----------------------------------------------------------------------------
(* JSON.stringify / JSON.parse: an object is written as its set of          *)
(* key/value pairs, an array as the sequence of its elements.               *)

JSONstringifyCart(c) ==
  {<<i, {<<s, c[i][s]>> : s \in DOMAIN c[i]}>> : i \in DOMAIN c}

JSONparseCart(j) ==
  [i \in {p[1] : p \in j} |->
     LET o == (CHOOSE p \in j : p[1] = i)[2]
     IN  [s \in {q[1] : q \in o} |-> (CHOOSE q \in o : q[1] = s)[2]]]

JSONstringifyOrders(os) ==
  [k \in DOMAIN os |->
     <<os[k].id, os[k].userId, JSONstringifyCart(os[k].items),
       os[k].paymentMethod, os[k].status>>]

JSONparseOrders(j) ==
  [k \in DOMAIN j |->
     [id |-> j[k][1], userId |-> j[k][2], items |-> JSONparseCart(j[k][3]),
      paymentMethod |-> j[k][4], status |-> j[k][5]]]

JSONstringifyUser(u) == <<u.id, u.email, u.name>>
JSONparseUser(j) == [id |-> j[1], email |-> j[2], name |-> j[3]]

\* localStorage.getItem(key) is null (here {}) when absent, else {text}.
TheItem(slot) == CHOOSE t \in slot : TRUE

-----------------------------------------------------------------------------
(* cartSlice.ts: persistence helpers.  ls is the localStorage record.       *)

\* localStorage.getItem(`${prefix}_${userId}`): null for a key never written.
getItem(slots, userId) == IF Has(slots, userId) THEN slots[userId] ELSE {}

\* localStorage.setItem(`${prefix}_${userId}`, text)
setItem(slots, userId, text) ==
  IF Has(slots, userId) THEN [slots EXCEPT ![userId] = {text}]
  ELSE Put(slots, userId, {text})

loadCartFromStorage(ls, userId) ==
  IF userId = NULL THEN EmptyCart
  ELSE IF getItem(ls.cart, userId) = {} THEN EmptyCart
  ELSE JSONparseCart(TheItem(ls.cart[userId]))

saveCartToStorage(ls, cartItems, userId) ==
  IF userId = NULL THEN ls
  ELSE [ls EXCEPT !.cart = setItem(@, userId, JSONstringifyCart(cartItems))]

removeCartFromStorage(ls, userId) ==
  IF userId = NULL THEN ls
  ELSE IF Has(ls.cart, userId) THEN [ls EXCEPT !.cart[userId] = {}]
  ELSE ls

(* authSlice.ts (ordersSlice part): persistence helpers *)

loadOrdersFromStorage(ls, userId) ==
  IF userId = NULL THEN << >>
  ELSE IF getItem(ls.orders, userId) = {} THEN << >>
  ELSE JSONparseOrders(TheItem(ls.orders[userId]))

saveOrdersToStorage(ls, os, userId) ==
  IF userId = NULL THEN ls
  ELSE [ls EXCEPT !.orders = setItem(@, userId, JSONstringifyOrders(os))]

(* authSlice.ts: persistence of the principal *)

loadUserFromStorage(ls) ==
  IF ls.user = {} THEN NoUser ELSE JSONparseUser(TheItem(ls.user))

saveUserToStorage(ls, user) ==
  IF user # NoUser THEN [ls EXCEPT !.user = {JSONstringifyUser(user)}]
  ELSE [ls EXCEPT !.user = {}]

\* The mock users database
JSONstringifyUsers(us) ==
  [k \in DOMAIN us |-> <<us[k].id, us[k].email, us[k].password, us[k].name>>]

JSONparseUsers(j) ==
  [k \in DOMAIN j |->
     [id |-> j[k][1], email |-> j[k][2], password |-> j[k][3], name |-> j[k][4]]]

loadUsersFromStorage(ls) ==
  IF ls.users = {} THEN << >> ELSE JSONparseUsers(TheItem(ls.users))

saveUsersToStorage(ls, users) ==
  [ls EXCEPT !.users = {JSONstringifyUsers(users)}]

-----------------------------------------------------------------------------
(* Reducers.  w is the record of everything a task can touch; a reducer     *)
(* returns w with its slice (and the storage it writes) updated.            *)

\* Faulty initializeCart: the view on display is kept when nothing is stored.
initializeCart_keepsView(w, userId) ==
  [w EXCEPT !.cart = [currentUserId |-> userId,
                      cartItems |-> IF w.ls.cart[userId] = {}
                                    THEN w.cart.cartItems
                                    ELSE loadCartFromStorage(w.ls, userId)]]

\* cartSlice.initializeCart
initializeCart(w, userId) ==
  [w EXCEPT !.cart = [currentUserId |-> userId,
                      cartItems |-> loadCartFromStorage(w.ls, userId)]]

\* Faulty clearCartOnLogout: the durable cart is removed with the view.
clearCartOnLogout_purges(w) ==
  [w EXCEPT !.cart = [currentUserId |-> NULL, cartItems |-> EmptyCart],
            !.ls = removeCartFromStorage(w.ls, w.cart.currentUserId)]

\* cartSlice.clearCartOnLogout
clearCartOnLogout(w) ==
  [w EXCEPT !.cart = [currentUserId |-> NULL, cartItems |-> EmptyCart]]

\* Object with entry (itemId, size) deleted, and itemId with it once it is empty.
DeleteEntry(c, itemId, size) ==
  LET inner == Del(c[itemId], size)
  IN  IF DOMAIN inner = {} THEN Del(c, itemId) ELSE Put(c, itemId, inner)

\* Faulty addToCart: the other sizes of the item are lost.
addToCart_dropsSizes(w, itemId, size) ==
  IF size = "" THEN w
  ELSE IF w.cart.currentUserId = NULL THEN w
  ELSE
    LET c == w.cart.cartItems
        n == IF Has(c, itemId) /\ TruthyAt(c[itemId], size) THEN c[itemId][size] ELSE 0
        cartData == Put(c, itemId, Put(EmptyCart, size, n + 1))
    IN  [w EXCEPT !.cart.cartItems = cartData,
                  !.ls = saveCartToStorage(w.ls, cartData, w.cart.currentUserId)]

\* cartSlice.addToCart
addToCart(w, itemId, size) ==
  IF size = "" THEN w
  ELSE IF w.cart.currentUserId = NULL THEN w
  ELSE
    LET c == w.cart.cartItems
        cartData ==
          IF Has(c, itemId)
          THEN IF TruthyAt(c[itemId], size)
               THEN Put(c, itemId, Put(c[itemId], size, c[itemId][size] + 1))
               ELSE Put(c, itemId, Put(c[itemId], size, 1))
          ELSE Put(c, itemId, Put(EmptyCart, size, 1))
    IN  [w EXCEPT !.cart.cartItems = cartData,
                  !.ls = saveCartToStorage(w.ls, cartData, w.cart.currentUserId)]

\* cartSlice.updateQuantity
updateQuantity(w, itemId, size, quantity) ==
  IF w.cart.currentUserId = NULL THEN w
  ELSE
    LET c == w.cart.cartItems
        cartData ==
          IF quantity = 0
          THEN IF Has(c, itemId) THEN DeleteEntry(c, itemId, size) ELSE c
          ELSE Put(c, itemId,
                   Put(IF Has(c, itemId) THEN c[itemId] ELSE EmptyCart,
                       size, quantity))
    IN  [w EXCEPT !.cart.cartItems = cartData,
                  !.ls = saveCartToStorage(w.ls, cartData, w.cart.currentUserId)]

\* cartSlice.removeFromCart
removeFromCart(w, itemId, size) ==
  IF w.cart.currentUserId = NULL THEN w
  ELSE
    LET c == w.cart.cartItems
        cartData ==
          IF Has(c, itemId) /\ TruthyAt(c[itemId], size)
          THEN DeleteEntry(c, itemId, size) ELSE c
    IN  [w EXCEPT !.cart.cartItems = cartData,
                  !.ls = saveCartToStorage(w.ls, cartData, w.cart.currentUserId)]

\* The forEach of removeSelectedItems over the selection (a sequence).
RECURSIVE RemoveEach(_, _)
RemoveEach(c, selectedItems) ==
  IF selectedItems = << >> THEN c
  ELSE LET item == Head(selectedItems)
           c1 == IF Has(c, item.itemId) /\ TruthyAt(c[item.itemId], item.size)
                 THEN DeleteEntry(c, item.itemId, item.size) ELSE c
       IN  RemoveEach(c1, Tail(selectedItems))

\* cartSlice.removeSelectedItems
removeSelectedItems(w, selectedItems) ==
  IF w.cart.currentUserId = NULL THEN w
  ELSE IF Len(selectedItems) = 0 THEN w
  ELSE
    LET cartData == RemoveEach(w.cart.cartItems, selectedItems)
    IN  [w EXCEPT !.cart.cartItems = cartData,
                  !.ls = saveCartToStorage(w.ls, cartData, w.cart.currentUserId)]

\* Faulty clearCart: the emptied cart is not persisted.
clearCart_memoryOnly(w) ==
  IF w.cart.currentUserId = NULL THEN w
  ELSE IF DOMAIN w.cart.cartItems = {} THEN w
  ELSE [w EXCEPT !.cart.cartItems = EmptyCart]

\* cartSlice.clearCart
clearCart(w) ==
  IF w.cart.currentUserId = NULL THEN w
  ELSE IF DOMAIN w.cart.cartItems = {} THEN w
  ELSE [w EXCEPT !.cart.cartItems = EmptyCart,
                 !.ls = saveCartToStorage(w.ls, EmptyCart, w.cart.currentUserId)]

\* cartSlice.deleteUserCart
deleteUserCart(w, userId) ==
  LET w1 == [w EXCEPT !.ls = removeCartFromStorage(w.ls, userId)]
  IN  IF w.cart.currentUserId = userId
      THEN [w1 EXCEPT !.cart.cartItems = EmptyCart]
      ELSE w1

\* ordersSlice.initializeOrders
initializeOrders(w, userId) ==
  [w EXCEPT !.orders = [currentUserId |-> userId,
                        orders |-> loadOrdersFromStorage(w.ls, userId)]]

\* ordersSlice.clearOrdersOnLogout
clearOrdersOnLogout(w) ==
  [w EXCEPT !.orders = [currentUserId |-> NULL, orders |-> << >>]]

\* ordersSlice.addOrder: id is Date.now().toString() as read by the reducer.
addOrder(w, id, cartItems, paymentMethod) ==
  IF w.orders.currentUserId = NULL THEN w
  ELSE
    LET newOrder == [id |-> id,
                     userId |-> w.orders.currentUserId,
                     items |-> cartItems,
                     paymentMethod |->
                       IF paymentMethod = "undefined" THEN "cod" ELSE paymentMethod,
                     status |-> "confirmed"]
        os == <<newOrder>> \o w.orders.orders
    IN  [w EXCEPT !.orders.orders = os,
                  !.ls = saveOrdersToStorage(w.ls, os, w.orders.currentUserId)]

\* orders.findIndex(order => order.id === orderId); 0 stands for -1.
findIndex(os, orderId) ==
  IF \E k \in DOMAIN os : os[k].id = orderId
  THEN CHOOSE k \in DOMAIN os :
         /\ os[k].id = orderId
         /\ \A m \in DOMAIN os : os[m].id = orderId => k <= m
  ELSE 0

\* ordersSlice.updateOrderStatus
updateOrderStatus(w, orderId, status) ==
  IF w.orders.currentUserId = NULL THEN w
  ELSE
    LET orderIndex == findIndex(w.orders.orders, orderId)
        os == [w.orders.orders EXCEPT ![orderIndex].status = status]
    IN  IF orderIndex # 0
        THEN [w EXCEPT !.orders.orders = os,
                       !.ls = saveOrdersToStorage(w.ls, os, w.orders.currentUserId)]
        ELSE w

\* ordersSlice.cancelOrder
cancelOrder(w, orderId) ==
  IF w.orders.currentUserId = NULL THEN w
  ELSE
    LET orderIndex == findIndex(w.orders.orders, orderId)
        os == [w.orders.orders EXCEPT ![orderIndex].status = "cancelled"]
    IN  IF orderIndex # 0
        THEN [w EXCEPT !.orders.orders = os,
                       !.ls = saveOrdersToStorage(w.ls, os, w.orders.currentUserId)]
        ELSE w

\* authSlice.loginStart
loginStart(w) ==
  [w EXCEPT !.auth.isLoading = TRUE, !.auth.error = NULL]

\* authSlice.loginSuccess
loginSuccess(w, user) ==
  [w EXCEPT !.auth.isLoading = FALSE,
            !.auth.user = user,
            !.auth.isAuthenticated = TRUE,
            !.auth.error = NULL,
            !.ls = saveUserToStorage(w.ls, user)]

\* authSlice.loginFailure
loginFailure(w, message) ==
  [w EXCEPT !.auth.isLoading = FALSE,
            !.auth.user = NoUser,
            !.auth.isAuthenticated = FALSE,
            !.auth.error = message]

\* authSlice.registerStart
registerStart(w) ==
  [w EXCEPT !.auth.isLoading = TRUE, !.auth.error = NULL]

\* authSlice.registerSuccess
registerSuccess(w, user, newUser) ==
  LET users == Append(w.auth.users, newUser)
  IN  [w EXCEPT !.auth.isLoading = FALSE,
                !.auth.user = user,
                !.auth.isAuthenticated = TRUE,
                !.auth.error = NULL,
                !.auth.users = users,
                !.ls = saveUsersToStorage(saveUserToStorage(w.ls, user), users)]

\* authSlice.registerFailure
registerFailure(w, message) ==
  [w EXCEPT !.auth.isLoading = FALSE, !.auth.error = message]

\* authSlice.updateProfile; the avatar is not part of the modelled principal.
updateProfile(w, payload) ==
  IF w.auth.user = NoUser THEN w
  ELSE
    LET user == w.auth.user
        updatedData ==
          [id |-> user.id,
           email |-> IF Has(payload, "email") THEN payload.email ELSE user.email,
           name |-> IF Has(payload, "name") THEN payload.name ELSE user.name]
        users == w.auth.users
        found == {k \in DOMAIN users : users[k].id = user.id}
        w1 == [w EXCEPT !.auth.user = updatedData,
                        !.ls = saveUserToStorage(w.ls, updatedData)]
    IN  IF found = {} THEN w1
        ELSE LET userIndex == CHOOSE k \in found : \A m \in found : k <= m
                 users2 == [users EXCEPT ![userIndex] =
                              [id |-> updatedData.id,
                               email |-> updatedData.email,
                               password |-> users[userIndex].password,
                               name |-> updatedData.name]]
             IN  [w1 EXCEPT !.auth.users = users2,
                            !.ls = saveUsersToStorage(w1.ls, users2)]

\* authSlice.clearError
clearError(w) ==
  [w EXCEPT !.auth.error = NULL]

\* authSlice.logout
logout(w) ==
  [w EXCEPT !.auth.user = NoUser,
            !.auth.isAuthenticated = FALSE,
            !.auth.error = NULL,
            !.ls = saveUserToStorage(w.ls, NoUser)]

-----------------------------------------------------------------------------
(* Thunks of authSlice.ts *)

Note(w, tag) == [w EXCEPT !.notes = @ \cup {tag}]

\* users.find(u => u.email === email && u.password === password); 0: undefined.
findUser(users, credentials) ==
  IF \E k \in DOMAIN users : /\ users[k].email = credentials.email
                             /\ users[k].password = credentials.password
  THEN CHOOSE k \in DOMAIN users :
         /\ users[k].email = credentials.email
         /\ users[k].password = credentials.password
         /\ \A m \in DOMAIN users :
              (users[m].email = credentials.email
                 /\ users[m].password = credentials.password) => k <= m
  ELSE 0

\* const { password, ...userWithoutPassword } = user
userWithoutPassword(u) == [id |-> u.id, email |-> u.email, name |-> u.name]

\* The setTimeout callback of loginUser.
loginUserCallback(w, credentials) ==
  LET k == findUser(w.auth.users, credentials)
  IN  IF k # 0
      THEN LET user == w.auth.users[k]
           IN  initializeOrders(
                 initializeCart(
                   loginSuccess(w, userWithoutPassword(user)), user.id), user.id)
      ELSE loginFailure(w, "Email or password is incorrect.")

\* The setTimeout callback of registerUser; Date.now().toString() is the new id.
registerUserCallback(w, userData) ==
  IF \E k \in DOMAIN w.auth.users : w.auth.users[k].email = userData.email
  THEN registerFailure(w, "Email has already been used.")
  ELSE LET newUser == [id |-> ToString(now), email |-> userData.email,
                       password |-> userData.password, name |-> userData.name]
       IN  initializeOrders(
             initializeCart(
               registerSuccess(w, userWithoutPassword(newUser), newUser),
               newUser.id), newUser.id)

\* The actions authMiddleware looks for.
ClearCartAction == [type |-> "cart/clearCartOnLogout", payload |-> NULL]
ClearOrdersAction == [type |-> "orders/clearOrdersOnLogout", payload |-> NULL]
MiddlewareActions ==
  {ClearCartAction, ClearOrdersAction}
    \cup {[type |-> "auth/initializeUserCart", payload |-> u] : u \in UserIds}

\* The root reducer on the actions of the middleware and of logoutUser.
rootReducer(w, action) ==
  CASE action.type = "cart/clearCartOnLogout" -> clearCartOnLogout(w)
    [] action.type = "orders/clearOrdersOnLogout" -> clearOrdersOnLogout(w)
    [] action.type = "cart/initializeCart" -> initializeCart(w, action.payload)
    [] action.type = "orders/initializeOrders" -> initializeOrders(w, action.payload)
    [] action.type = "auth/logout" -> logout(w)
    [] OTHER -> w

\* store.dispatch(action) of a store with authMiddleware installed, as the
\* depth-th nested dispatch.  The call stack of the engine holds MaxDepth
\* nested dispatches; the call that exceeds it throws a RangeError, which
\* every caller lets through.
RECURSIVE authMiddleware(_, _, _)
authMiddleware(w, action, depth) ==
  IF depth > MaxDepth THEN Note(w, "RangeError")
  ELSE
    LET result == rootReducer(w, action)
    IN  CASE action.type = "auth/initializeUserCart" ->
               LET w1 == authMiddleware(
                           result,
                           [type |-> "cart/initializeCart", payload |-> action.payload],
                           depth + 1)
               IN  IF "RangeError" \in w1.notes THEN w1
                   ELSE authMiddleware(
                          w1,
                          [type |-> "orders/initializeOrders", payload |-> action.payload],
                          depth + 1)
          [] action.type = "cart/clearCartOnLogout" ->
               authMiddleware(result, ClearCartAction, depth + 1)
          [] action.type = "orders/clearOrdersOnLogout" ->
               authMiddleware(result, ClearOrdersAction, depth + 1)
          [] OTHER -> result

\* logoutUser dispatching through authMiddleware: an exception of a dispatch
\* ends the thunk.
logoutUserThrough(w) ==
  LET w1 == authMiddleware(w, ClearCartAction, 1)
  IN  IF "RangeError" \in w1.notes THEN w1
      ELSE LET w2 == authMiddleware(w1, ClearOrdersAction, 1)
           IN  IF "RangeError" \in w2.notes THEN w2
               ELSE Note(authMiddleware(w2, [type |-> "auth/logout", payload |-> NULL], 1),
                         "logoutUser")

\* Faulty initializeApp: the views are never attached.
initializeApp_detached(w) ==
  Note(clearOrdersOnLogout(clearCartOnLogout(w)), "initializeApp")

\* initializeApp
initializeApp(w) ==
  Note(IF w.auth.isAuthenticated /\ w.auth.user # NoUser
       THEN initializeOrders(initializeCart(w, w.auth.user.id), w.auth.user.id)
       ELSE clearOrdersOnLogout(clearCartOnLogout(w)),
       "initializeApp")

\* logoutUser
logoutUser(w) ==
  Note(logout(clearOrdersOnLogout(clearCartOnLogout(w))), "logoutUser")

-----------------------------------------------------------------------------
(* useAutoLogout and AutoLogoutProvider.  A callback is a closure over the  *)
(* isAuthenticated of the render that created it: the operators take that   *)
(* value as a parameter.                                                    *)

\* The handle setTimeout returns: opaque to the program, here the kind of the
\* callback and the time of the call.  NoHandle is the null of a ref.
NoHandle == << >>
NewHandle(kind) == <<kind, now>>

\* A negative delay counts as 0.
setTimeout(w, kind, delay, isAuthenticated) ==
  [w EXCEPT !.timers = @ \cup {[id |-> NewHandle(kind), kind |-> kind,
                                due |-> now + (IF delay < 0 THEN 0 ELSE delay),
                                auth |-> isAuthenticated]}]

clearTimeout(w, id) == [w EXCEPT !.timers = {t \in @ : t.id # id}]

\* useState setter of AutoLogoutProvider: an unchanged value renders nothing.
setIsWarningShown(w, v) ==
  IF w.isWarningShown = v THEN w
  ELSE [w EXCEPT !.isWarningShown = v, !.renderQueued = TRUE]

\* navigate('/login'): a location change re-renders the users of useNavigate.
navigate(w) == [w EXCEPT !.renderQueued = TRUE]

\* AutoLogoutProvider: the inline onWarning
onWarning(w, isAuthenticated) ==
  LET w1 == setIsWarningShown(w, TRUE)
  IN  setTimeout(w1, "hide", config.warningDuration, isAuthenticated)

\* AutoLogoutProvider: the inline onLogout
onLogout(w) == setIsWarningShown(w, FALSE)

\* Faulty performLogout: the toast about the inactivity is missing.
performLogout_silent(w, isAuthenticated) ==
  IF isAuthenticated
  THEN onLogout(navigate(logoutUser(w)))
  ELSE w

\* useAutoLogout.performLogout
performLogout(w, isAuthenticated) ==
  IF isAuthenticated
  THEN Note(onLogout(navigate(logoutUser(w))), "Expired")
  ELSE w

\* useAutoLogout.showWarningMessage
showWarningMessage(w, isAuthenticated) ==
  IF config.showWarning /\ isAuthenticated
  THEN Note(onWarning(w, isAuthenticated), "Warning")
  ELSE w

\* Faulty resetTimer: the guard on isAuthenticated is missing.
resetTimer_unguarded(w, isAuthenticated) ==
  LET w1 == [w EXCEPT !.hook.lastActivityRef = now]
      w2 == IF w1.hook.timeoutRef # NoHandle
            THEN clearTimeout(w1, w1.hook.timeoutRef) ELSE w1
      w3 == IF w2.hook.warningTimeoutRef # NoHandle
            THEN clearTimeout(w2, w2.hook.warningTimeoutRef) ELSE w2
      w4 == IF config.showWarning
            THEN [setTimeout(w3, "warning",
                             config.timeoutDuration - config.warningDuration,
                             isAuthenticated)
                    EXCEPT !.hook.warningTimeoutRef = NewHandle("warning")]
            ELSE w3
      w5 == [setTimeout(w4, "logout", config.timeoutDuration, isAuthenticated)
               EXCEPT !.hook.timeoutRef = NewHandle("logout")]
  IN  Note(w5, "resetTimer")

\* Faulty resetTimer: the timers of the earlier schedule are not cleared.
resetTimer_noClear(w, isAuthenticated) ==
  IF ~isAuthenticated THEN w
  ELSE
    LET w1 == [w EXCEPT !.hook.lastActivityRef = now]
        w4 == IF config.showWarning
              THEN [setTimeout(w1, "warning",
                               config.timeoutDuration - config.warningDuration,
                               isAuthenticated)
                      EXCEPT !.hook.warningTimeoutRef = NewHandle("warning")]
              ELSE w1
        w5 == [setTimeout(w4, "logout", config.timeoutDuration, isAuthenticated)
                 EXCEPT !.hook.timeoutRef = NewHandle("logout")]
    IN  Note(w5, "resetTimer")

\* useAutoLogout.resetTimer
resetTimer(w, isAuthenticated) ==
  IF ~isAuthenticated THEN w
  ELSE
    LET w1 == [w EXCEPT !.hook.lastActivityRef = now]
        w2 == IF w1.hook.timeoutRef # NoHandle
              THEN clearTimeout(w1, w1.hook.timeoutRef) ELSE w1
        w3 == IF w2.hook.warningTimeoutRef # NoHandle
              THEN clearTimeout(w2, w2.hook.warningTimeoutRef) ELSE w2
        w4 == IF config.showWarning
              THEN [setTimeout(w3, "warning",
                               config.timeoutDuration - config.warningDuration,
                               isAuthenticated)
                      EXCEPT !.hook.warningTimeoutRef = NewHandle("warning")]
              ELSE w3
        w5 == [setTimeout(w4, "logout", config.timeoutDuration, isAuthenticated)
                 EXCEPT !.hook.timeoutRef = NewHandle("logout")]
    IN  Note(w5, "resetTimer")

\* useAutoLogout.handleActivity
handleActivity(w, isAuthenticated) == resetTimer(w, isAuthenticated)

\* Faulty cleanup: the listeners stay registered and the timers pending.
effectCleanup_keepsAll(w) == w

\* Faulty cleanup: the timers are cleared, the listeners stay registered.
effectCleanup_keepsListeners(w) ==
  LET w2 == IF w.hook.timeoutRef # NoHandle
            THEN clearTimeout(w, w.hook.timeoutRef) ELSE w
  IN  IF w2.hook.warningTimeoutRef # NoHandle
      THEN clearTimeout(w2, w2.hook.warningTimeoutRef) ELSE w2

\* Cleanup of the listener/timer effect of the previous render.
effectCleanup(w) ==
  LET w1 == [w EXCEPT !.hook.listeners = @ - 1]
      w2 == IF w1.hook.timeoutRef # NoHandle
            THEN clearTimeout(w1, w1.hook.timeoutRef) ELSE w1
  IN  IF w2.hook.warningTimeoutRef # NoHandle
      THEN clearTimeout(w2, w2.hook.warningTimeoutRef) ELSE w2

\* Faulty effect body: without a user the refs keep their handles.
effectBody_keepsRefs(w, isAuthenticated) ==
  IF ~isAuthenticated THEN w
  ELSE resetTimer([w EXCEPT !.hook.listeners = @ + 1], isAuthenticated)

\* Body of the listener/timer effect, run with the new render's isAuthenticated.
effectBody(w, isAuthenticated) ==
  IF ~isAuthenticated
  THEN LET w1 == IF w.hook.timeoutRef # NoHandle
                 THEN [clearTimeout(w, w.hook.timeoutRef)
                         EXCEPT !.hook.timeoutRef = NoHandle]
                 ELSE w
       IN  IF w1.hook.warningTimeoutRef # NoHandle
           THEN [clearTimeout(w1, w1.hook.warningTimeoutRef)
                   EXCEPT !.hook.warningTimeoutRef = NoHandle]
           ELSE w1
  ELSE resetTimer([w EXCEPT !.hook.listeners = @ + 1], isAuthenticated)

\* One render of AutoLogoutProvider and the effects it commits.  onWarning and
\* onLogout are new functions in every render, so resetTimer and handleActivity
\* are too, and both effects of useAutoLogout run again after every render.
Render(w) ==
  LET isAuthenticated == w.auth.isAuthenticated
      w1 == IF w.hook.isAuthenticated THEN effectCleanup(w) ELSE w
      w2 == effectBody(w1, isAuthenticated)
  IN  [w2 EXCEPT !.hook.isAuthenticated = isAuthenticated,
                 !.hook.visibilityListeners = 1,
                 !.renderQueued = FALSE]

\* The commit React makes after a task: the provider renders when its state
\* changed, the location changed or selectIsAuthenticated returns a new value.
Flush(w) ==
  IF w.renderQueued \/ w.auth.isAuthenticated # w.hook.isAuthenticated
  THEN Render(w) ELSE w

\* Faulty handleVisibilityChange: the guard on isAuthenticated is missing.
handleVisibilityChange_unguarded(w, isAuthenticated, documentHidden) ==
  IF documentHidden
  THEN [w EXCEPT !.hook.lastActivityRef = now]
  ELSE LET timeAwayFromTab == now - w.hook.lastActivityRef
       IN  IF timeAwayFromTab >= config.timeoutDuration
           THEN performLogout(w, isAuthenticated)
           ELSE resetTimer(w, isAuthenticated)

\* useAutoLogout.handleVisibilityChange, with document.hidden as a parameter
handleVisibilityChange(w, isAuthenticated, documentHidden) ==
  IF ~isAuthenticated THEN w
  ELSE IF documentHidden
  THEN [w EXCEPT !.hook.lastActivityRef = now]
  ELSE LET timeAwayFromTab == now - w.hook.lastActivityRef
       IN  IF timeAwayFromTab >= config.timeoutDuration
           THEN performLogout(w, isAuthenticated)
           ELSE resetTimer(w, isAuthenticated)

\* The utility functions the hook returns.
getRemainingTime ==
  IF ~hook.isAuthenticated THEN 0
  ELSE LET elapsed == now - hook.lastActivityRef
       IN  IF config.timeoutDuration - elapsed > 0
           THEN config.timeoutDuration - elapsed ELSE 0

getLastActivity == hook.lastActivityRef

isTimerActive == hook.timeoutRef # NoHandle

-----------------------------------------------------------------------------
(* History kept for the properties: it is written, never read, by the model *)

NoSwitch == [null |-> TRUE]
NoSnap == [null |-> TRUE]
NoSess == [enabledAt |-> -1, quiet |-> FALSE,
           warned |-> 0, expired |-> 0, hiddenAt |-> -1, lastResetAt |-> -1,
           elapsed |-> -1, since |-> -1, showAway |-> -1, act |-> "other"]

Min(a, b) == IF a < b THEN a ELSE b

Noisy == {"activity", "manualReset", "hide", "show", "navigate"}

StoreOps == {"addToCart", "updateQuantity", "removeFromCart", "removeSelectedItems",
             "clearCart", "deleteUserCart", "addOrder", "updateOrderStatus",
             "cancelOrder"}

\* The session history after task act took the hook from its state to w.
NextSess(act, w) ==
  LET enabling == ~hook.isAuthenticated /\ w.hook.isAuthenticated
      live     == w.hook.isAuthenticated
  IN  [enabledAt   |-> IF enabling THEN now ELSE sess.enabledAt,
       quiet       |-> IF enabling THEN ~hidden /\ act = "loginCallback"
                       ELSE live /\ sess.quiet /\ act \notin Noisy,
       warned      |-> IF enabling THEN 0
                       ELSE IF "Warning" \in w.notes
                            THEN Min(2, sess.warned + 1) ELSE sess.warned,
       expired     |-> IF enabling THEN 0
                       ELSE IF "Expired" \in w.notes
                            THEN Min(2, sess.expired + 1) ELSE sess.expired,
       hiddenAt    |-> IF enabling \/ ~live THEN -1
                       ELSE IF act = "hide" /\ hook.isAuthenticated THEN now
                       ELSE IF act = "show" THEN -1
                       ELSE sess.hiddenAt,
       lastResetAt |-> IF "resetTimer" \in w.notes THEN now
                       ELSE IF live THEN sess.lastResetAt ELSE -1,
       elapsed     |-> IF w.notes \cap {"Warning", "Expired"} # {}
                       THEN now - sess.lastResetAt ELSE -1,
       since       |-> IF w.notes \cap {"Warning", "Expired"} # {}
                       THEN sess.lastResetAt ELSE -1,
       showAway    |-> IF act = "show" /\ hook.isAuthenticated /\ sess.hiddenAt >= 0
                       THEN now - sess.hiddenAt ELSE -1,
       act         |-> IF act \in Noisy \cup {"timer"} THEN act ELSE "other"]

\* Per user: the views a logoutUser of this task detached, kept while the
\* user stays away and only other users operate on the store.
NextAtLogout(act, w) ==
  [u \in UserIds |->
     IF "logoutUser" \in w.notes /\ cart.currentUserId = u
     THEN [cart |-> cart.cartItems, orders |-> orders.orders]
     ELSE IF cart.currentUserId = u THEN NoSnap
     ELSE IF act \in StoreOps /\ cart.currentUserId = NULL THEN NoSnap
     ELSE atLogout[u]]

-----------------------------------------------------------------------------
(* State machine *)

World ==
  [auth |-> auth, cart |-> cart, orders |-> orders, ls |-> localStorage,
   hook |-> hook, timers |-> timers, isWarningShown |-> isWarningShown,
   renderQueued |-> FALSE, notes |-> {}]

\* The task ends: React commits, and the variables take the values of w0.
Commit(act, w0, sw) ==
  \E w \in {Flush(w0)} :
      /\ auth' = w.auth
      /\ cart' = w.cart
      /\ orders' = w.orders
      /\ localStorage' = w.ls
      /\ hook' = w.hook
      /\ timers' = w.timers
      /\ isWarningShown' = w.isWarningShown
      /\ notes' = w.notes \ {"resetTimer"}
      /\ switch' = sw
      /\ atLogout' = NextAtLogout(act, w)
      /\ sess' = NextSess(act, w)

StoredCarts == {{}, {JSONstringifyCart([p1 |-> [M |-> 1]])}}
StoredUsers == {{}} \cup {{JSONstringifyUser(userWithoutPassword(Directory[k]))} :
                            k \in DOMAIN Directory}

Configs ==
  {c \in [timeoutDuration : 2..MaxTimeout, warningDuration : 1..MaxTimeout,
          showWarning : BOOLEAN] : c.timeoutDuration > c.warningDuration}

\* The props a caller can pass that break warningDuration < timeoutDuration
\* or hold a duration that is not positive.
BadConfigs ==
  {c \in [timeoutDuration : {-1, 0, 2}, warningDuration : {-1, 0, 2, MaxTimeout},
          showWarning : {TRUE}] :
     \/ c.warningDuration >= c.timeoutDuration
     \/ c.timeoutDuration <= 0
     \/ c.warningDuration <= 0}

\* The store as configureStore builds it from what earlier runs persisted,
\* before the first render, under a provider with props of C.
Boot(C) ==
  /\ localStorage \in [user : StoredUsers,
                       users : {{JSONstringifyUsers(Directory)}},
                       cart : [UserIds -> StoredCarts],
                       orders : {[u \in UserIds |-> {}]}]
  /\ auth = [user |-> loadUserFromStorage(localStorage),
             isAuthenticated |-> loadUserFromStorage(localStorage) # NoUser,
             isLoading |-> FALSE,
             error |-> NULL,
             users |-> loadUsersFromStorage(localStorage)]
  /\ cart = [cartItems |-> EmptyCart, currentUserId |-> NULL]
  /\ orders = [orders |-> << >>, currentUserId |-> NULL]
  /\ pendingAuth = << >>
  /\ mounted = FALSE
  /\ config \in C
  /\ hook = [isAuthenticated |-> FALSE, timeoutRef |-> NoHandle,
             warningTimeoutRef |-> NoHandle,
             lastActivityRef |-> 0, listeners |-> 0, visibilityListeners |-> 0]
  /\ timers = {}
  /\ isWarningShown = FALSE
  /\ now = 0
  /\ hidden = FALSE
  /\ notes = {}
  /\ switch = NoSwitch
  /\ atLogout = [u \in UserIds |-> NoSnap]
  /\ sess = NoSess

Init == Boot(Configs)

\* First render: the effects of useAutoLogout mount, then App's effect
\* dispatches initializeApp.
AppMount ==
  /\ ~mounted
  /\ mounted' = TRUE
  /\ Commit("mount", initializeApp(Render(World)), NoSwitch)
  /\ UNCHANGED <<pendingAuth, config, now, hidden>>

\* The page is loaded again: the store is built anew from localStorage, and
\* the callbacks that were pending are gone.
Reload ==
  /\ mounted
  /\ mounted' = FALSE
  /\ auth' = [user |-> loadUserFromStorage(localStorage),
              isAuthenticated |-> loadUserFromStorage(localStorage) # NoUser,
              isLoading |-> FALSE,
              error |-> NULL,
              users |-> loadUsersFromStorage(localStorage)]
  /\ cart' = [cartItems |-> EmptyCart, currentUserId |-> NULL]
  /\ orders' = [orders |-> << >>, currentUserId |-> NULL]
  /\ pendingAuth' = << >>
  /\ hook' = [isAuthenticated |-> FALSE, timeoutRef |-> NoHandle,
              warningTimeoutRef |-> NoHandle,
              lastActivityRef |-> now, listeners |-> 0, visibilityListeners |-> 0]
  /\ timers' = {}
  /\ isWarningShown' = FALSE
  /\ notes' = {}
  /\ switch' = NoSwitch
  /\ atLogout' = [u \in UserIds |-> NoSnap]
  /\ sess' = NoSess
  /\ UNCHANGED <<localStorage, config, now, hidden>>

\* loginUser(credentials): loginStart now, the check of the credentials deferred.
LoginUserWithin(C, n) ==
  /\ mounted
  /\ Len(pendingAuth) < n
  /\ \E credentials \in C :
       /\ pendingAuth' = Append(pendingAuth, credentials)
       /\ Commit("loginUser", loginStart(World), NoSwitch)
  /\ UNCHANGED <<mounted, config, now, hidden>>

LoginUser(C) == LoginUserWithin(C, MaxPending)

\* The deferred callback of the oldest loginUser runs.
LoginCallback ==
  /\ mounted
  /\ pendingAuth # << >>
  /\ ~Has(Head(pendingAuth), "name")
  /\ pendingAuth' = Tail(pendingAuth)
  /\ LET credentials == Head(pendingAuth)
         k == findUser(auth.users, credentials)
     IN  Commit("loginCallback", loginUserCallback(World, credentials),
                IF k = 0 THEN NoSwitch
                ELSE [from |-> cart.currentUserId,
                      fromCart |-> cart.cartItems,
                      to |-> auth.users[k].id,
                      toCart |-> getItem(localStorage.cart, auth.users[k].id),
                      toOrders |-> getItem(localStorage.orders, auth.users[k].id)])
  /\ UNCHANGED <<mounted, config, now, hidden>>

\* registerUser(userData): registerStart now, the check of the e-mail deferred.
RegisterUserWithin(D, n) ==
  /\ mounted
  /\ Len(pendingAuth) < n
  /\ \E userData \in D :
       /\ pendingAuth' = Append(pendingAuth, userData)
       /\ Commit("registerUser", registerStart(World), NoSwitch)
  /\ UNCHANGED <<mounted, config, now, hidden>>

RegisterUser(D) == RegisterUserWithin(D, MaxPending)

\* The Login page clears the error (on unmount and when the form switches
\* between Login and Sign Up).
ClearError ==
  /\ mounted
  /\ Commit("clearError", clearError(World), NoSwitch)
  /\ UNCHANGED <<pendingAuth, mounted, config, now, hidden>>

\* The deferred callback of the oldest registerUser runs.
RegisterCallback ==
  /\ mounted
  /\ pendingAuth # << >>
  /\ Has(Head(pendingAuth), "name")
  /\ pendingAuth' = Tail(pendingAuth)
  /\ Commit("registerCallback", registerUserCallback(World, Head(pendingAuth)), NoSwitch)
  /\ UNCHANGED <<mounted, config, now, hidden>>

\* An action is dispatched to a store with authMiddleware installed.
Dispatch(A) ==
  /\ mounted
  /\ \E action \in A : Commit("dispatch", authMiddleware(World, action, 1), NoSwitch)
  /\ UNCHANGED <<pendingAuth, mounted, config, now, hidden>>

\* The user logs out of a store with authMiddleware installed.
LogoutUserThrough ==
  /\ mounted
  /\ Commit("logoutUser", logoutUserThrough(World), NoSwitch)
  /\ UNCHANGED <<pendingAuth, mounted, config, now, hidden>>

\* The profile form dispatches updateProfile(payload).
UpdateProfile(P) ==
  /\ mounted
  /\ \E payload \in P : Commit("updateProfile", updateProfile(World, payload), NoSwitch)
  /\ UNCHANGED <<pendingAuth, mounted, config, now, hidden>>

\* The user logs out.
LogoutUser ==
  /\ mounted
  /\ Commit("logoutUser", logoutUser(World), NoSwitch)
  /\ UNCHANGED <<pendingAuth, mounted, config, now, hidden>>

AddToCart(S) ==
  /\ mounted
  /\ \E itemId \in Items, size \in S :
       /\ Has(cart.cartItems, itemId) /\ Has(cart.cartItems[itemId], size)
            => cart.cartItems[itemId][size] < MaxQty
       /\ Commit("addToCart", addToCart(World, itemId, size), NoSwitch)
  /\ UNCHANGED <<pendingAuth, mounted, config, now, hidden>>

UpdateQuantity(S, Q) ==
  /\ mounted
  /\ \E itemId \in Items, size \in S, quantity \in Q :
       Commit("updateQuantity", updateQuantity(World, itemId, size, quantity), NoSwitch)
  /\ UNCHANGED <<pendingAuth, mounted, config, now, hidden>>

RemoveFromCart(S) ==
  /\ mounted
  /\ \E itemId \in Items, size \in S :
       Commit("removeFromCart", removeFromCart(World, itemId, size), NoSwitch)
  /\ UNCHANGED <<pendingAuth, mounted, config, now, hidden>>

\* The selections of at most two entries of sizes S.
Selections(S) ==
  {<< >>} \cup {<<[itemId |-> i, size |-> s]>> : i \in Items, s \in S}
    \cup {<<[itemId |-> i, size |-> s1], [itemId |-> i, size |-> s2]>> :
            i \in Items, s1 \in S, s2 \in S}

RemoveSelectedItems(S) ==
  /\ mounted
  /\ \E selectedItems \in Selections(S) :
       Commit("removeSelectedItems", removeSelectedItems(World, selectedItems), NoSwitch)
  /\ UNCHANGED <<pendingAuth, mounted, config, now, hidden>>

ClearCart ==
  /\ mounted
  /\ Commit("clearCart", clearCart(World), NoSwitch)
  /\ UNCHANGED <<pendingAuth, mounted, config, now, hidden>>

DeleteUserCart ==
  /\ mounted
  /\ \E userId \in UserIds :
       Commit("deleteUserCart", deleteUserCart(World, userId), NoSwitch)
  /\ UNCHANGED <<pendingAuth, mounted, config, now, hidden>>

\* The order page places an order for the cart on display.
AddOrder(I, P) ==
  /\ mounted
  /\ Len(orders.orders) < MaxOrders
  /\ \E id \in I, paymentMethod \in P :
       Commit("addOrder", addOrder(World, id, cart.cartItems, paymentMethod), NoSwitch)
  /\ UNCHANGED <<pendingAuth, mounted, config, now, hidden>>

UpdateOrderStatus(I) ==
  /\ mounted
  /\ \E orderId \in I, status \in StatusInputs :
       Commit("updateOrderStatus", updateOrderStatus(World, orderId, status), NoSwitch)
  /\ UNCHANGED <<pendingAuth, mounted, config, now, hidden>>

CancelOrder(I) ==
  /\ mounted
  /\ \E orderId \in I :
       Commit("cancelOrder", cancelOrder(World, orderId), NoSwitch)
  /\ UNCHANGED <<pendingAuth, mounted, config, now, hidden>>

\* Time passes.  A visible tab runs its timers on time; a hidden tab may not.
Tick ==
  /\ mounted
  /\ now < MaxTime
  /\ hidden \/ \A t \in timers : t.due > now
  /\ now' = now + 1
  /\ UNCHANGED <<auth, cart, orders, localStorage, pendingAuth, mounted, config,
                 hook, timers, isWarningShown, hidden, notes, switch, atLogout, sess>>

\* The callback of a due timer runs; timers run in the order they are due.
TimerCallback(w, t) ==
  IF t.kind = "warning" THEN showWarningMessage(w, t.auth)
  ELSE IF t.kind = "logout" THEN performLogout(w, t.auth)
  ELSE setIsWarningShown(w, FALSE)

TimerFire ==
  /\ mounted
  /\ \E t \in timers :
       /\ t.due <= now
       /\ \A t2 \in timers : t.due <= t2.due
       /\ Commit("timer", TimerCallback([World EXCEPT !.timers = @ \ {t}], t), NoSwitch)
  /\ UNCHANGED <<pendingAuth, mounted, config, now, hidden>>

\* One of the seven activity signals reaches the registered handleActivity.
Activity ==
  /\ mounted
  /\ ~hidden
  /\ hook.listeners > 0
  /\ Commit("activity", handleActivity(World, hook.isAuthenticated), NoSwitch)
  /\ UNCHANGED <<pendingAuth, mounted, config, now, hidden>>

\* resetTimer() of the context: "stay logged in" / "extend".
ManualReset ==
  /\ mounted
  /\ ~hidden
  /\ Commit("manualReset", resetTimer(World, hook.isAuthenticated), NoSwitch)
  /\ UNCHANGED <<pendingAuth, mounted, config, now, hidden>>

\* visibilitychange with document.hidden = true
VisibilityHide ==
  /\ mounted
  /\ ~hidden
  /\ hidden' = TRUE
  /\ Commit("hide", handleVisibilityChange(World, hook.isAuthenticated, TRUE), NoSwitch)
  /\ UNCHANGED <<pendingAuth, mounted, config, now>>

\* visibilitychange with document.hidden = false
VisibilityShow ==
  /\ mounted
  /\ hidden
  /\ hidden' = FALSE
  /\ Commit("show", handleVisibilityChange(World, hook.isAuthenticated, FALSE), NoSwitch)
  /\ UNCHANGED <<pendingAuth, mounted, config, now>>

\* A route change re-renders AutoLogoutProvider.
Navigate ==
  /\ mounted
  /\ ~hidden
  /\ Commit("navigate", navigate(World), NoSwitch)
  /\ UNCHANGED <<pendingAuth, mounted, config, now, hidden>>

Next ==
  \/ AppMount \/ LoginUser(Credentials) \/ LoginCallback \/ LogoutUser
  \/ RegisterUser(RegisterInputs) \/ RegisterCallback
  \/ AddToCart(SizeInputs) \/ UpdateQuantity(Sizes, QtyInputs)
  \/ RemoveFromCart(Sizes) \/ RemoveSelectedItems(Sizes)
  \/ ClearCart \/ DeleteUserCart
  \/ AddOrder(OrderIds, PaymentInputs) \/ UpdateOrderStatus(OrderIds)
  \/ CancelOrder(OrderIds)
  \/ Tick \/ TimerFire \/ Activity \/ ManualReset
  \/ VisibilityHide \/ VisibilityShow \/ Navigate
  \/ Reload

Spec == Init /\ [][Next]_vars

\* The store alone: logins and logouts of two users, on one size and one order
\* id.  The first user of the directory shops; the other one has the cart
\* earlier runs persisted, and may delete carts.
Shopper == cart.currentUserId # Directory[2].id

NextStore ==
  \/ AppMount \/ LoginUser(ValidCredentials) \/ LoginCallback \/ LogoutUser
  \/ (Shopper /\ AddToCart({"M"}))
  \/ (Shopper /\ UpdateQuantity({"M"}, 0..MaxQty))
  \/ (Shopper /\ RemoveFromCart({"M"}))
  \/ (Shopper /\ RemoveSelectedItems({"M"}))
  \/ (Shopper /\ ClearCart)
  \/ DeleteUserCart
  \/ (Shopper /\ AddOrder({"o1"}, {"undefined"}))
  \/ (Shopper /\ UpdateOrderStatus({"o1"}))
  \/ (Shopper /\ CancelOrder({"o1"}))

InitStore ==
  /\ Init
  /\ config = [timeoutDuration |-> MaxTimeout, warningDuration |-> 1,
               showWarning |-> TRUE]

SpecStore == InitStore /\ [][NextStore]_vars

\* The session of one user: logins, logouts, the clock, the timers and the
\* browser events.
NextSession ==
  \/ AppMount
  \/ (~auth.isAuthenticated /\ LoginUser(SessionCredentials))
  \/ LoginCallback \/ LogoutUser
  \/ Tick \/ TimerFire \/ Activity \/ ManualReset
  \/ VisibilityHide \/ VisibilityShow \/ Navigate

InitSession ==
  /\ Init
  /\ \A u \in UserIds : localStorage.cart[u] = {}
  /\ auth.user # NoUser => auth.user.id = "u1"

SpecSession == InitSession /\ [][NextSession]_vars

\* The cart of the first user alone, in two sizes: logins and logouts of two
\* users and addToCart, the empty size included.
NextCart ==
  \/ AppMount \/ LoginUser(ValidCredentials) \/ LoginCallback \/ LogoutUser
  \/ (Shopper /\ AddToCart(SizeInputs))

SpecCart == InitStore /\ [][NextCart]_vars

\* Authentication: logins with right and wrong credentials and sign-ups with
\* a new and a used e-mail address, made in any state, by a shopper with a
\* cart and an order.
NextAuth ==
  \/ AppMount \/ LoginUser(Credentials) \/ LoginCallback
  \/ RegisterUser(RegisterInputs) \/ RegisterCallback
  \/ LogoutUser
  \/ (Shopper /\ AddToCart({"M"}))
  \/ (Shopper /\ AddOrder({"o1"}, {"undefined"}))

SpecAuth == InitStore /\ [][NextAuth]_vars

\* The end of a session, by logout or by expiry, of a user with a stored cart
\* who may place an order.
NextExpiry ==
  \/ AppMount
  \/ (~auth.isAuthenticated /\ LoginUser(SessionCredentials))
  \/ LoginCallback \/ LogoutUser
  \/ AddOrder({"o1"}, {"undefined"})
  \/ Tick \/ TimerFire \/ Activity
  \/ VisibilityHide \/ VisibilityShow

InitExpiry ==
  /\ Init
  /\ localStorage.cart[Directory[1].id] # {}
  /\ localStorage.cart[Directory[2].id] = {}
  /\ auth.user # NoUser => auth.user.id = Directory[1].id
  /\ config.timeoutDuration = MaxTimeout
  /\ config.warningDuration = 1

SpecExpiry == InitExpiry /\ [][NextExpiry]_vars

\* Starts of the application: logins and logouts of two users, a shopper who
\* fills a cart and places an order, and reloads of the page.
NextStart ==
  \/ AppMount \/ LoginUser(ValidCredentials) \/ LoginCallback \/ LogoutUser
  \/ (Shopper /\ AddToCart({"M"}))
  \/ (Shopper /\ AddOrder({"o1"}, {"undefined"}))
  \/ Reload

SpecStart == InitStore /\ [][NextStart]_vars

\* The session of one user under props that are not valid.
NextConfig ==
  \/ AppMount
  \/ (~auth.isAuthenticated /\ LoginUser(SessionCredentials))
  \/ LoginCallback \/ LogoutUser
  \/ Tick \/ TimerFire \/ Activity

InitConfig ==
  /\ Boot(BadConfigs)
  /\ \A u \in UserIds : localStorage.cart[u] = {}
  /\ auth.user # NoUser => auth.user.id = Directory[1].id

SpecConfig == InitConfig /\ [][NextConfig]_vars

\* The authentication controller with up to MaxOverlap attempts in flight,
\* each started while nobody is logged in (the Login page leaves when
\* isAuthenticated); every deferred callback runs eventually (a timer of the
\* browser).
NextOverlap ==
  \/ AppMount
  \/ (~auth.isAuthenticated /\ LoginUserWithin(Credentials, MaxOverlap))
  \/ LoginCallback
  \/ (~auth.isAuthenticated /\ RegisterUserWithin(RegisterInputs, MaxOverlap))
  \/ RegisterCallback
  \/ LogoutUser \/ ClearError

InitOverlap == InitStore /\ \A u \in UserIds : localStorage.cart[u] = {}

SpecOverlap ==
  /\ InitOverlap
  /\ [][NextOverlap]_vars
  /\ WF_vars(LoginCallback) /\ WF_vars(RegisterCallback)

\* The principal and the directory under logins, registrations with up to
\* MaxOverlap callbacks in flight, logouts, updateProfile and restarts; the
\* directory is kept to MaxUsers records when a registration starts.
NextProfile ==
  \/ AppMount
  \/ (~auth.isAuthenticated /\ LoginUserWithin(Credentials, MaxOverlap))
  \/ LoginCallback
  \/ (~auth.isAuthenticated /\ Len(auth.users) < MaxUsers
        /\ RegisterUserWithin(RegisterInputs, MaxOverlap))
  \/ RegisterCallback
  \/ LogoutUser
  \/ UpdateProfile(ProfileInputs)
  \/ Reload

SpecProfile == InitOverlap /\ [][NextProfile]_vars

\* A store with authMiddleware installed, started with a persisted principal
\* (initializeApp then dispatches none of the actions of the middleware).
NextMiddleware ==
  \/ AppMount
  \/ LoginUser(ValidCredentials) \/ LoginCallback
  \/ Dispatch(MiddlewareActions)
  \/ LogoutUserThrough
  \/ (Shopper /\ AddToCart({"M"}))
  \/ (Shopper /\ AddOrder({"o1"}, {"undefined"}))

InitMiddleware == InitStore /\ auth.isAuthenticated

SpecMiddleware == InitMiddleware /\ [][NextMiddleware]_vars

\* The cart of one user under every cart operation, updateQuantity with
\* any integer of QtyInputs.
NextQty ==
  \/ AppMount \/ LoginUser(SessionCredentials) \/ LoginCallback \/ LogoutUser
  \/ AddToCart({"M"})
  \/ UpdateQuantity({"M"}, QtyInputs)
  \/ RemoveFromCart({"M"})
  \/ RemoveSelectedItems({"M"})
  \/ ClearCart

SpecQty == InitSession /\ [][NextQty]_vars

-----------------------------------------------------------------------------
(* Properties *)

TimerKinds == {"warning", "logout"}

\* C1: after the active user is switched to B, the cart in memory is B's
\* persisted cart and nothing else: the text stored for B before the switch is
\* the text of the cart now on display, and the cart is empty when nothing was
\* stored for B, whatever the cart of the previous user held.
C1_SwitchShowsOnlyTargetCart ==
  switch # NoSwitch =>
    /\ cart.currentUserId = switch.to
    /\ IF switch.toCart = {}
       THEN cart.cartItems = EmptyCart
       ELSE JSONstringifyCart(cart.cartItems) \in switch.toCart

\* A switch away from a live user with a non-empty cart to a user with nothing stored.
C1_Witness ==
  /\ switch # NoSwitch
  /\ switch.from \in UserIds
  /\ switch.from # switch.to
  /\ switch.fromCart # EmptyCart
  /\ switch.toCart = {}
  /\ cart.cartItems = EmptyCart

\* C2: a session enabled by a login and left without activity, visibility
\* change or manual reset expires timeoutDuration after the enabling: such a
\* session is never still running later than that.
C2_ExpiredAtTimeout ==
  sess.quiet => now - sess.enabledAt <= config.timeoutDuration

\* C3: the expiry action runs at most once in a session, whether the expiry
\* timer or the visibility handler triggers it, and while nobody is logged in
\* no warning or expiry timer is pending and the hook holds no timer, whatever
\* activity signals and resetTimer() calls follow the expiry.
C3_ExpiredOnce ==
  /\ sess.expired <= 1
  /\ ~hook.isAuthenticated =>
       /\ \A t \in timers : t.kind \notin TimerKinds
       /\ ~isTimerActive

\* resetTimer() was called after the session had expired, before a new login.
C3_Witness ==
  /\ sess.expired = 1
  /\ ~hook.isAuthenticated
  /\ sess.act = "manualReset"

\* C4: a reset supersedes the earlier schedule: every pending warning or expiry
\* callback is the one the latest reset scheduled, a Warning is delivered no
\* earlier than timeoutDuration - warningDuration after the latest reset and
\* the expiry no earlier than timeoutDuration after it.
C4_ResetSupersedes ==
  /\ hook.isAuthenticated =>
       \A t \in timers :
         /\ t.kind = "warning" =>
              t.due = sess.lastResetAt + config.timeoutDuration - config.warningDuration
         /\ t.kind = "logout" => t.due = sess.lastResetAt + config.timeoutDuration
  /\ "Warning" \in notes =>
       sess.elapsed >= config.timeoutDuration - config.warningDuration
  /\ "Expired" \in notes => sess.elapsed >= config.timeoutDuration

\* The expiry timer of a reset made after the enabling fires, timeoutDuration
\* after that reset.
C4_Witness ==
  /\ "Expired" \in notes
  /\ sess.act = "timer"
  /\ sess.since > sess.enabledAt
  /\ sess.elapsed = config.timeoutDuration

\* C5: a resetTimer() call after the Warning and before the expiry returns the
\* session to the non-warned state: isWarningShown is false after it.
C5_ResetClearsWarning ==
  (sess.act = "manualReset" /\ hook.isAuthenticated /\ sess.warned >= 1)
    => ~isWarningShown

\* C6: in a session left without activity the Warning fires once.
C6_WarningOnce ==
  sess.quiet => sess.warned <= 1

\* C7: a tab shown again timeoutDuration or longer after it was hidden expires
\* the session in the visibility handler.
C7_ShowDecidesByAway ==
  sess.showAway >= config.timeoutDuration => "Expired" \in notes

\* C8: a show event with no hide event before it in the session changes
\* neither lastActivityRef, nor the pending timers, nor the authentication.
C8_BareShowIsNoOp ==
  [][(VisibilityShow /\ hook.isAuthenticated /\ sess.hiddenAt < 0)
       => /\ hook'.lastActivityRef = hook.lastActivityRef
          /\ timers' = timers
          /\ auth' = auth]_vars

\* C9: logoutUser empties the cart and the order list in memory, sets
\* currentUserId to null in both slices, and leaves the durable cart and
\* orders entry of every user as it was.
C9_LogoutDetachesOnly ==
  [][LogoutUser =>
       /\ cart' = [currentUserId |-> NULL, cartItems |-> EmptyCart]
       /\ orders' = [currentUserId |-> NULL, orders |-> << >>]
       /\ localStorage'.cart = localStorage.cart
       /\ localStorage'.orders = localStorage.orders]_vars

\* A user with a non-empty cart and an order has just logged out.
C9_Witness ==
  /\ "logoutUser" \in notes
  /\ \E u \in UserIds :
       /\ atLogout[u] # NoSnap
       /\ atLogout[u].cart # EmptyCart
       /\ atLogout[u].orders # << >>
       /\ localStorage.cart[u] # {}
       /\ localStorage.orders[u] # {}
  /\ cart.cartItems = EmptyCart
  /\ orders.orders = << >>

\* C10: a user who logs in again, after other users operated on the store,
\* sees the cart and the orders that were in memory at the logout.
C10_RoundTrip ==
  (switch # NoSwitch /\ atLogout[switch.to] # NoSnap)
    => /\ cart.cartItems = atLogout[switch.to].cart
       /\ orders.orders = atLogout[switch.to].orders

\* The (itemId, size) entries of a cart, and the quantity of one (0: absent).
Entries(c) == {e \in Items \X Sizes : Has(c, e[1]) /\ Has(c[e[1]], e[2])}
Qty(c, e) == IF e \in Entries(c) THEN c[e[1]][e[2]] ELSE 0

\* C11: with an active user and a non-empty size, addToCart(itemId, size)
\* raises the quantity of entry (itemId, size) by 1, from 0 when it is absent,
\* and changes no other entry; and the cart a user had at logout is the cart
\* that user sees at the next login, after logins of other users.
C11_AddToCartCounts ==
  /\ [](switch # NoSwitch /\ atLogout[switch.to] # NoSnap
          => cart.cartItems = atLogout[switch.to].cart)
  /\ [][\A itemId \in Items, size \in Sizes :
          (AddToCart({size}) /\ cart.currentUserId # NULL)
            => /\ Entries(cart'.cartItems) = Entries(cart.cartItems) \cup {<<itemId, size>>}
               /\ \A e \in Entries(cart'.cartItems) :
                    Qty(cart'.cartItems, e) =
                      Qty(cart.cartItems, e) + (IF e = <<itemId, size>> THEN 1 ELSE 0)]_vars

\* The first user, who logged out with two of p1/M and nothing else, logs in
\* while the second user, who saw an empty cart, is active.
C11_Witness ==
  /\ switch # NoSwitch
  /\ switch.from = Directory[2].id
  /\ switch.fromCart = EmptyCart
  /\ switch.to = Directory[1].id
  /\ atLogout[switch.to] # NoSnap
  /\ atLogout[switch.to].cart = [p1 |-> [M |-> 2]]
  /\ cart.cartItems = [p1 |-> [M |-> 2]]

\* The deferred callback that runs in this step fails: a login with
\* credentials the directory does not hold, a sign-up with a used e-mail.
LoginFails == LoginCallback /\ findUser(auth.users, Head(pendingAuth)) = 0
RegisterFails ==
  /\ RegisterCallback
  /\ \E k \in DOMAIN auth.users : auth.users[k].email = Head(pendingAuth).email

\* C12: a failed login or a failed registration records the error message and
\* nothing else: the principal, the authenticated flag, the session timers,
\* the cart and the orders in memory, and all of localStorage stay as they were.
C12_FailureOnlyRecordsError ==
  [][(LoginFails \/ RegisterFails)
       => /\ auth'.error # NULL
          /\ auth'.user = auth.user
          /\ auth'.isAuthenticated = auth.isAuthenticated
          /\ timers' = timers
          /\ hook'.timeoutRef = hook.timeoutRef
          /\ cart' = cart
          /\ orders' = orders
          /\ localStorage' = localStorage]_vars

\* A step of one of the nine cart and orders operations.
StoreOp ==
  \/ AddToCart(SizeInputs) \/ UpdateQuantity(Sizes, QtyInputs)
  \/ RemoveFromCart(Sizes) \/ RemoveSelectedItems(Sizes)
  \/ ClearCart \/ DeleteUserCart
  \/ AddOrder(OrderIds, PaymentInputs) \/ UpdateOrderStatus(OrderIds)
  \/ CancelOrder(OrderIds)

\* C13: while no user is active every cart and orders operation is a no-op:
\* the cart and the orders in memory and all of localStorage stay as they were.
C13_AnonymousNoOp ==
  [][(StoreOp /\ cart.currentUserId = NULL /\ orders.currentUserId = NULL)
       => /\ cart' = cart
          /\ orders' = orders
          /\ localStorage' = localStorage]_vars

\* C14: while user u is active, no cart or orders operation changes the
\* durable cart or orders entry of another user.
C14_OtherUsersUntouched ==
  [][(StoreOp /\ cart.currentUserId \in UserIds)
       => \A v \in UserIds \ {cart.currentUserId} :
            /\ localStorage'.cart[v] = localStorage.cart[v]
            /\ localStorage'.orders[v] = localStorage.orders[v]]_vars

\* C15: whenever a user is active, loading that user's cart and orders from
\* localStorage yields the cart and the order list in memory.
C15_PersistedOnEveryMutation ==
  /\ cart.currentUserId # NULL
       => loadCartFromStorage(localStorage, cart.currentUserId) = cart.cartItems
  /\ orders.currentUserId # NULL
       => loadOrdersFromStorage(localStorage, orders.currentUserId) = orders.orders

\* The active user has raised a quantity to 2 and cancelled an order.
C15_Witness ==
  /\ cart.currentUserId = Directory[1].id
  /\ cart.cartItems = [p1 |-> [M |-> 2]]
  /\ Len(orders.orders) = 1
  /\ orders.orders[1].status = "cancelled"
  /\ localStorage.cart[Directory[1].id] # {}
  /\ localStorage.orders[Directory[1].id] # {}

\* C16: the session is disabled atomically with the detaching of the views:
\* in no state are the cart or the orders detached while an activity signal
\* can re-arm a timer, that is while an activity listener is registered, the
\* handlers see an authenticated user, or a warning or expiry timer is pending.
C16_DetachedMeansDisabled ==
  (mounted /\ (cart.currentUserId = NULL \/ orders.currentUserId = NULL))
    => /\ hook.listeners = 0
       /\ ~hook.isAuthenticated
       /\ ~isTimerActive
       /\ \A t \in timers : t.kind \notin TimerKinds

\* The user of a session that was enabled earlier and saw activity has just
\* logged out.
C16_Witness ==
  /\ "logoutUser" \in notes
  /\ "Expired" \notin notes
  /\ cart.currentUserId = NULL
  /\ sess.enabledAt >= 0
  /\ hook.lastActivityRef > sess.enabledAt
  /\ hook.listeners = 0

\* C17: a logout never leaves a timer armed, whatever activity was processed
\* just before it: after the logout both refs of the hook are null, so
\* isTimerActive() is false, and no warning or expiry callback is pending.
C17_LogoutDisarms ==
  [][LogoutUser
       => /\ hook'.timeoutRef = NoHandle
          /\ hook'.warningTimeoutRef = NoHandle
          /\ \A t \in timers' : t.kind \notin TimerKinds]_vars

\* The logout follows, within the same instant, a reset of the timers made
\* after the session was enabled.
C17_Witness ==
  /\ "logoutUser" \in notes
  /\ "Expired" \notin notes
  /\ hook.lastActivityRef = now
  /\ now > sess.enabledAt
  /\ sess.enabledAt >= 0
  /\ ~isTimerActive
  /\ timers = {}

\* C18: a timer callback or an activity, reset or visibility handler that runs
\* while nobody is logged in is a no-op: it changes neither the authentication
\* state, nor the cart, the orders or localStorage, nor the refs of the hook,
\* it schedules no timer and emits no Warning, Expired or logout.  The guard
\* it evaluates has the value of the current authentication state: the
\* handlers registered and the warning and expiry callbacks pending were all
\* created with the isAuthenticated of the store.
C18_StaleCallbacksNoOp ==
  /\ [](mounted =>
         /\ hook.isAuthenticated = auth.isAuthenticated
         /\ \A t \in timers : t.kind \in TimerKinds => t.auth = auth.isAuthenticated)
  /\ [][((TimerFire \/ Activity \/ ManualReset \/ VisibilityHide \/ VisibilityShow)
           /\ ~auth.isAuthenticated)
          => /\ auth' = auth
             /\ cart' = cart
             /\ orders' = orders
             /\ localStorage' = localStorage
             /\ hook' = hook
             /\ timers' \subseteq timers
             /\ notes' = {}]_vars

\* After the end of a session the tab is shown again, timeoutDuration or
\* longer after the last activity, and the handler does nothing.
C18_Witness ==
  /\ ~auth.isAuthenticated
  /\ sess.enabledAt >= 0
  /\ sess.act = "show"
  /\ now - hook.lastActivityRef >= config.timeoutDuration
  /\ notes = {}

\* C19: when a timer callback or the visibility handler ends the session, the
\* state after it is the state logoutUser produces from the same state: the
\* same principal (none), the same localStorage (`user` removed, carts and
\* orders untouched), the same detached cart and orders, the same hook and
\* the same pending timers; and the step emits the inactivity notice, which a
\* logout by the user never emits.
C19_ExpiryIsLogout ==
  /\ [][((TimerFire \/ VisibilityShow)
            /\ auth.isAuthenticated /\ ~auth'.isAuthenticated)
          => \E e \in {Flush(logoutUser(World))} :
               /\ "Expired" \in notes'
               /\ auth' = e.auth
               /\ cart' = e.cart
               /\ orders' = e.orders
               /\ localStorage' = e.ls
               /\ hook' = e.hook
               /\ timers' = e.timers
               /\ "logoutUser" \in notes']_vars
  /\ [][LogoutUser => "Expired" \notin notes']_vars

\* The expiry timer has ended the session of a user with a stored cart and
\* an order.
C19_Witness ==
  /\ "Expired" \in notes
  /\ sess.act = "timer"
  /\ auth.user = NoUser
  /\ localStorage.user = {}
  /\ cart = [currentUserId |-> NULL, cartItems |-> EmptyCart]
  /\ orders = [currentUserId |-> NULL, orders |-> << >>]
  /\ localStorage.cart[Directory[1].id] # {}
  /\ localStorage.orders[Directory[1].id] # {}
  /\ \A t \in timers : t.kind \notin TimerKinds

\* C20: a store built while a principal P is persisted under `user` is
\* authenticated as P, with no credential check; the first render with
\* initializeApp then attaches the cart and the orders to P.id with the
\* contents persisted for P and arms the expiry timer, and changes nothing of
\* the authentication.  Built with no persisted principal the store is
\* anonymous, and after initializeApp the views are empty with currentUserId
\* null and no timer is pending.
C20_StartRestoresPrincipal ==
  /\ [](~mounted =>
         /\ auth.isAuthenticated <=> localStorage.user # {}
         /\ localStorage.user # {} => JSONstringifyUser(auth.user) \in localStorage.user
         /\ localStorage.user = {} => auth.user = NoUser
         /\ pendingAuth = << >>)
  /\ [][AppMount =>
          IF localStorage.user # {}
          THEN LET P == JSONparseUser(TheItem(localStorage.user))
               IN  /\ auth' = auth
                   /\ auth'.isAuthenticated
                   /\ auth'.user.id = P.id
                   /\ pendingAuth' = << >>
                   /\ cart'.currentUserId = P.id
                   /\ IF getItem(localStorage.cart, P.id) = {}
                      THEN cart'.cartItems = EmptyCart
                      ELSE JSONstringifyCart(cart'.cartItems) \in localStorage.cart[P.id]
                   /\ orders'.currentUserId = P.id
                   /\ IF getItem(localStorage.orders, P.id) = {}
                      THEN orders'.orders = << >>
                      ELSE JSONstringifyOrders(orders'.orders) \in localStorage.orders[P.id]
                   /\ hook'.timeoutRef # NoHandle
                   /\ \E t \in timers' : /\ t.id = hook'.timeoutRef
                                         /\ t.kind = "logout"
                                         /\ t.due = now + config.timeoutDuration
          ELSE /\ auth'.user = NoUser
               /\ ~auth'.isAuthenticated
               /\ cart' = [currentUserId |-> NULL, cartItems |-> EmptyCart]
               /\ orders' = [currentUserId |-> NULL, orders |-> << >>]
               /\ hook'.timeoutRef = NoHandle
               /\ timers' = {}]_vars

\* The application has started with a persisted principal whose cart and
\* orders earlier runs persisted.
C20_Witness ==
  /\ "initializeApp" \in notes
  /\ auth.isAuthenticated
  /\ cart.currentUserId = auth.user.id
  /\ cart.cartItems # EmptyCart
  /\ orders.orders # << >>
  /\ isTimerActive

\* C21: lastActivityRef and the pending deadlines change only through an
\* activity or manual reset or the visibility handler: a timer callback that
\* leaves the user logged in (the Warning, the hiding of the indicator) and a
\* re-render of the provider change neither.
C21_OnlyResetsMoveActivity ==
  [][((TimerFire \/ Navigate) /\ hook.isAuthenticated /\ auth'.isAuthenticated)
       => /\ hook'.lastActivityRef = hook.lastActivityRef
          /\ {t \in timers' : t.kind \in TimerKinds} \subseteq timers]_vars

\* C22: under props with warningDuration >= timeoutDuration or a duration
\* that is not positive, no warning or expiry callback is ever scheduled and
\* no Warning or Expired is ever delivered.
C22_BadConfigFailsFast ==
  /\ \A t \in timers : t.kind \notin TimerKinds
  /\ "Warning" \notin notes
  /\ "Expired" \notin notes

\* C23: every quantity of the cart in memory and of every cart in
\* localStorage is a positive integer.
C23_QuantitiesPositive ==
  /\ \A e \in Entries(cart.cartItems) : Qty(cart.cartItems, e) > 0
  /\ \A u \in UserIds :
       localStorage.cart[u] # {} =>
         \A e \in Entries(loadCartFromStorage(localStorage, u)) :
           Qty(loadCartFromStorage(localStorage, u), e) > 0

\* The state of the authentication controller.
Controller(a) ==
  IF a.isLoading THEN "Authenticating"
  ELSE IF a.isAuthenticated THEN "Authenticated"
  ELSE IF a.error # NULL THEN "Error"
  ELSE "Anonymous"

Transitions ==
  {<<"Anonymous", "Authenticating">>, <<"Authenticating", "Authenticated">>,
   <<"Authenticated", "Anonymous">>, <<"Authenticating", "Error">>,
   <<"Error", "Anonymous">>, <<"Error", "Authenticating">>}

\* C24: the callbacks of the attempts in flight keep running until none is
\* left; after a
\* callback isLoading is false and the controller is Authenticated with the
\* principal set or carries the error message; and the controller changes
\* state only along Anonymous -> Authenticating -> Authenticated -> Anonymous
\* and Authenticating -> Error -> Anonymous/Authenticating, with up to
\* MaxOverlap attempts in flight.
C24_ControllerStateMachine ==
  /\ \/ <>[](pendingAuth = << >>)
     \/ []<><<LoginCallback \/ RegisterCallback>>_vars
  /\ [][(LoginCallback \/ RegisterCallback)
          => /\ ~auth'.isLoading
             /\ \/ auth'.isAuthenticated /\ auth'.user # NoUser
                \/ ~auth'.isAuthenticated /\ auth'.error # NULL]_vars
  /\ [][Controller(auth') # Controller(auth)
          => <<Controller(auth), Controller(auth')>> \in Transitions]_vars

\* C25: between the sequences of the thunks the views follow the principal:
\* while a user is authenticated the cart and the orders are attached to the
\* principal's id, and while nobody is, both are detached and empty.
C25_ViewsFollowPrincipal ==
  mounted =>
    IF auth.isAuthenticated
    THEN /\ cart.currentUserId = auth.user.id
         /\ orders.currentUserId = auth.user.id
    ELSE /\ auth.user = NoUser
         /\ cart = [currentUserId |-> NULL, cartItems |-> EmptyCart]
         /\ orders = [currentUserId |-> NULL, orders |-> << >>]

\* C26: at most one warning callback and at most one expiry callback are
\* pending, handleActivity is registered at most once for the activity events
\* and the visibility handler at most once.
C26_OneTimerOneListener ==
  /\ Cardinality({t \in timers : t.kind = "warning"}) <= 1
  /\ Cardinality({t \in timers : t.kind = "logout"}) <= 1
  /\ hook.listeners \in {0, 1}
  /\ hook.visibilityListeners \in {0, 1}

\* The provider has rendered again while the session was enabled, after an
\* earlier reset: one warning and one expiry callback are pending and one
\* listener is registered.
C26_Witness ==
  /\ sess.act = "navigate"
  /\ hook.isAuthenticated
  /\ sess.enabledAt >= 0
  /\ now > sess.enabledAt
  /\ hook.listeners = 1
  /\ Cardinality({t \in timers : t.kind = "warning"}) = 1
  /\ Cardinality({t \in timers : t.kind = "logout"}) = 1

\* C27: while the session is armed the pending expiry callback is due at
\* lastActivityRef + timeoutDuration, so getRemainingTime() is the time left
\* until that callback; and getRemainingTime() is 0 while nobody is
\* authenticated.
C27_RemainingTimeIsTimeLeft ==
  /\ (mounted /\ hook.isAuthenticated) =>
       \A t \in timers :
         t.kind = "logout" =>
           /\ t.due = hook.lastActivityRef + config.timeoutDuration
           /\ getRemainingTime = IF t.due > now THEN t.due - now ELSE 0
  /\ (mounted /\ ~auth.isAuthenticated) => getRemainingTime = 0

\* C28: the value persisted under `user` is the principal in memory, and it
\* is absent exactly when the principal is null.
C28_PersistedUserIsPrincipal ==
  localStorage.user =
    IF auth.user = NoUser THEN {} ELSE {JSONstringifyUser(auth.user)}

\* C30: no two records of the users directory, in memory or persisted, have
\* the same e-mail; and a registration whose e-mail is in the directory when
\* its callback runs sets the error "Email has already been used." and leaves
\* the directory as it was.
C30_EmailsUnique ==
  /\ [](\A k, m \in DOMAIN auth.users :
          auth.users[k].email = auth.users[m].email => k = m)
  /\ [](\A k, m \in DOMAIN loadUsersFromStorage(localStorage) :
          loadUsersFromStorage(localStorage)[k].email
            = loadUsersFromStorage(localStorage)[m].email => k = m)
  /\ [][RegisterFails
          => /\ auth'.error = "Email has already been used."
             /\ auth'.users = auth.users
             /\ localStorage'.users = localStorage.users]_vars

\* C29: in a store with authMiddleware installed a dispatch of
\* cart/clearCartOnLogout or of orders/clearOrdersOnLogout, and a logoutUser,
\* return without exhausting the call stack, with the cart (the orders, both
\* and the principal) cleared.
C29_MiddlewareTerminates ==
  /\ [][Dispatch({ClearCartAction})
          => /\ "RangeError" \notin notes'
             /\ cart' = [currentUserId |-> NULL, cartItems |-> EmptyCart]]_vars
  /\ [][Dispatch({ClearOrdersAction})
          => /\ "RangeError" \notin notes'
             /\ orders' = [currentUserId |-> NULL, orders |-> << >>]]_vars
  /\ [][LogoutUserThrough
          => /\ "RangeError" \notin notes'
             /\ cart' = [currentUserId |-> NULL, cartItems |-> EmptyCart]
             /\ orders' = [currentUserId |-> NULL, orders |-> << >>]
             /\ ~auth'.isAuthenticated]_vars

====
